---- MODULE Spec2Model ----
(***************************************************************************)
(* Model of the match-video annotation service (core/models.py,            *)
(* core/views.py): the save-marks protocol of analysis_save_marks, the     *)
(* Mark.points accessor, the magic-byte validator _validate_video_file and *)
(* the video_upload flow.                                                  *)
(*                                                                         *)
(* Times are integers.  A submitted time is a number of 10^-InputPlaces    *)
(* seconds; a persisted time or delta (DecimalField, 4 decimal places) is  *)
(* a number of 10^-DecimalPlaces seconds.                                  *)
(***************************************************************************)
EXTENDS Integers, Sequences, FiniteSets, TLC

\* ---- bounds of the model ----
MaxMarks == 2
MaxSaves == 2
MaxPointChanges == 1
InputPlaces == 5

\* ---- program constants ----
DecimalPlaces == 4

Procs == {1, 2}

VARIABLES
    actionPoints,   \* Action table: id -> points
    store,          \* committed Mark rows of the analysis
    nextId,         \* next primary key of the Mark table
    pc,             \* per request handler: position in analysis_save_marks
    req,            \* per request handler: the parsed request body
    work,           \* per request handler: sorted_marks with delta_seconds
    txDel,          \* per request handler: rows deleted inside its transaction
    status,         \* per request handler: HTTP status of the response (0: none yet)
    resp,           \* per request handler: 'marks' of the success response
    seen,           \* what analysis_detail read last
    committed,      \* history: rows installed by the last commit
    before,         \* history: committed rows when the request arrived
    saves,          \* history: number of requests received
    prevOK,         \* history: summary of the successful save before a repeat
    lastOK,         \* history: summary of the last successful save
    changes,        \* history: number of Action.points updates
    rescored,       \* history: ids of stored marks whose action was re-priced
    vfile,          \* the bytes handed to _validate_video_file
    vresult,        \* what _validate_video_file returned for them
    videos,         \* Video rows
    disk,           \* files under VIDEOS_ROOT: path -> bytes
    dirs,           \* directories under VIDEOS_ROOT
    nextVideoId,    \* next primary key of the Video table
    upc,            \* position of the video_upload handler
    ureq,           \* the upload request being handled
    uplan,          \* file_content, detected_ext and storage path of the upload
    ustatus,        \* HTTP status of the upload's response (0: none)
    uploads,        \* history: number of upload requests received
    ubefore,        \* history: Video rows and files when the upload arrived
    accepted        \* history: the uploads that ended in a Video row

saveVars == <<actionPoints, store, nextId, pc, req, work, txDel, status, resp,
              seen, committed, before, saves, prevOK, lastOK, changes, rescored>>

validateVars == <<vfile, vresult>>

uploadVars == <<videos, disk, dirs, nextVideoId, upc, ureq, uplan, ustatus, uploads,
                ubefore, accepted>>

vars == <<saveVars, validateVars, uploadVars>>

None == [none |-> TRUE]

\* ---- fixed-point conversion -------------------------------------------
\* Number of submitted-time units in one persisted unit.
Sub == 10 ^ (InputPlaces - DecimalPlaces)

\* DecimalField(decimal_places=4): the value is quantized to 4 places under
\* the decimal context's default rounding, ROUND_HALF_EVEN.
Quantize(x) ==
    LET q == x \div Sub
        r == x % Sub
    IN  IF 2 * r < Sub THEN q
        ELSE IF 2 * r > Sub THEN q + 1
        ELSE IF q % 2 = 0 THEN q ELSE q + 1

\* ---- the rubric ---------------------------------------------------------
ActionIds == {1, 2}
PointValues == {10, 5}
ActionCode(a) == IF a = 1 THEN "SHOT" ELSE "PASS"

\* faulty variant of points: the failure flag is not looked at
pointsIgnoringFailure(m) == actionPoints[m.action_id] * m.count

\* Mark.points
points(m) ==
    IF m.is_failure THEN 0 ELSE actionPoints[m.action_id] * m.count

\* ---- submitted marks ----------------------------------------------------
\* dict.get(key, default)
Get(m, key, default) == IF key \in DOMAIN m THEN m[key] ELSE default

MarkSpecs ==
    { [action_id |-> 1, time_seconds |-> 4],
      [action_id |-> 2, time_seconds |-> 8, is_failure |-> TRUE, count |-> 3],
      [action_id |-> 2, time_seconds |-> 8, count |-> 3],
      [action_id |-> 9, time_seconds |-> 8],
      [action_id |-> 2, time_seconds |-> 30, is_failure |-> FALSE, count |-> -1] }

RECURSIVE SeqsUpTo(_, _)
SeqsUpTo(S, n) ==
    IF n = 0 THEN {<<>>}
    ELSE LET shorter == SeqsUpTo(S, n - 1)
         IN  shorter \cup {Append(s, x) : s \in {t \in shorter : Len(t) = n - 1}, x \in S}

Garbage == [json |-> FALSE]
Requests(S) == {[json |-> TRUE, marks |-> ms] : ms \in SeqsUpTo(S, MaxMarks)} \cup {Garbage}

\* ---- analysis_save_marks: validation and normalisation -----------------
Analyses == {1}

\* action_ids = {m['action_id'] for m in marks_data}
SubmittedActionIds(marks) == {marks[i].action_id : i \in 1..Len(marks)}

\* Action.objects.filter(id__in=action_ids).values_list('id', flat=True)
ExistingActions(ids) == ids \cap DOMAIN actionPoints

\* faulty variant of ActionIdsValid: one existing id is enough
ActionIdsValidIfAnyExists(marks) ==
    LET action_ids == SubmittedActionIds(marks)
    IN  ~(action_ids # {} /\ ExistingActions(action_ids) = {})

\* the batch passes "if action_ids and action_ids != existing_actions"
ActionIdsValid(marks) ==
    LET action_ids == SubmittedActionIds(marks)
    IN  ~(action_ids # {} /\ action_ids # ExistingActions(action_ids))

\* sorted(marks_data, key=lambda m: m['time_seconds']); Python's sort is stable.
InsertByTime(m, s) ==
    LET k == Cardinality({i \in 1..Len(s) : s[i].time_seconds <= m.time_seconds})
    IN  SubSeq(s, 1, k) \o <<m>> \o SubSeq(s, k + 1, Len(s))

RECURSIVE SortedByTime(_)
SortedByTime(s) ==
    IF s = <<>> THEN <<>>
    ELSE InsertByTime(s[Len(s)], SortedByTime(SubSeq(s, 1, Len(s) - 1)))

\* the prev_time loop: each mark gets delta_seconds = time_seconds - prev_time
WithDeltas(s) ==
    [i \in 1..Len(s) |->
        [delta_seconds |-> s[i].time_seconds
                           - (IF i = 1 THEN 0 ELSE s[i - 1].time_seconds)] @@ s[i]]

\* faulty variant of NewMarks: an omitted count becomes 0
NewMarksCountDefaultZero(sorted, firstId) ==
    { [id |-> firstId + i - 1,
       action_id |-> sorted[i].action_id,
       time_seconds |-> Quantize(sorted[i].time_seconds),
       delta_seconds |-> Quantize(sorted[i].delta_seconds),
       is_failure |-> Get(sorted[i], "is_failure", FALSE),
       count |-> Get(sorted[i], "count", 0)] : i \in 1..Len(sorted) }

\* the Mark(...) objects handed to bulk_create, with the keys the insert assigns
NewMarks(sorted, firstId) ==
    { [id |-> firstId + i - 1,
       action_id |-> sorted[i].action_id,
       time_seconds |-> Quantize(sorted[i].time_seconds),
       delta_seconds |-> Quantize(sorted[i].delta_seconds),
       is_failure |-> Get(sorted[i], "is_failure", FALSE),
       count |-> Get(sorted[i], "count", 1)] : i \in 1..Len(sorted) }

\* PositiveIntegerField: the insert violates the column's check when count < 0
InsertAccepted(rows) == \A m \in rows : m.count >= 0

\* analysis.marks.all(): the rows DELETE removes (the model holds the marks of
\* one analysis)
MarksOfAnalysis(rows) == rows

\* faulty variant of StoreDuringTx: the delete is visible at once (no transaction)
StoreDuringTxAutocommit(rows, deleted) == rows \ deleted

\* with transaction.atomic(): an uncommitted delete is invisible to the store's
\* other readers
StoreDuringTx(rows, deleted) == rows

\* analysis.marks.select_related('action').order_by('time_seconds'): every order
\* of the rows that is ascending in time_seconds (ties are in no defined order)
RECURSIVE OrderedByTime(_)
OrderedByTime(rows) ==
    IF rows = {} THEN {<<>>}
    ELSE LET first == {m \in rows : \A n \in rows : m.time_seconds <= n.time_seconds}
         IN  UNION {{<<m>> \o t : t \in OrderedByTime(rows \ {m})} : m \in first}

\* the dictionaries of saved_marks / marks_data
MarkData(s) ==
    [i \in 1..Len(s) |->
        [id |-> s[i].id, action_id |-> s[i].action_id,
         action_code |-> ActionCode(s[i].action_id),
         time_seconds |-> s[i].time_seconds, delta_seconds |-> s[i].delta_seconds,
         is_failure |-> s[i].is_failure, count |-> s[i].count]]

\* ---- helpers of the properties (history only) -----------------------------
Strip(m) == [action_id |-> m.action_id, time_seconds |-> m.time_seconds,
             delta_seconds |-> m.delta_seconds, is_failure |-> m.is_failure,
             count |-> m.count]

BagOf(rows) ==
    [r \in {Strip(m) : m \in rows} |-> Cardinality({m \in rows : Strip(m) = r})]

RowsOf(s) == {s[i] : i \in 1..Len(s)}

RECURSIVE Total(_)
Total(rows) ==
    IF rows = {} THEN 0
    ELSE LET m == CHOOSE x \in rows : TRUE IN points(m) + Total(rows \ {m})

Resting == {"idle", "done", "rejected", "failed"}

\* ---- actions -------------------------------------------------------------
\* analysis_save_marks up to the transaction: get_object_or_404, json.loads,
\* the action-id check, the sort and the delta loop
Receive(p, analysis_id, r) ==
    /\ pc[p] \in Resting
    /\ saves < MaxSaves
    /\ saves' = saves + 1
    /\ req' = [req EXCEPT ![p] = [analysis_id |-> analysis_id] @@ r]
    /\ before' = [before EXCEPT ![p] = store]
    /\ resp' = [resp EXCEPT ![p] = <<>>]
    /\ txDel' = [txDel EXCEPT ![p] = {}]
    /\ IF analysis_id \notin Analyses
          THEN /\ status' = [status EXCEPT ![p] = 404]
               /\ pc' = [pc EXCEPT ![p] = "rejected"]
               /\ work' = [work EXCEPT ![p] = <<>>]
       ELSE IF ~r.json \/ ~ActionIdsValid(r.marks)
          THEN /\ status' = [status EXCEPT ![p] = 400]
               /\ pc' = [pc EXCEPT ![p] = "rejected"]
               /\ work' = [work EXCEPT ![p] = <<>>]
       ELSE /\ status' = [status EXCEPT ![p] = 0]
            /\ pc' = [pc EXCEPT ![p] = "ready"]
            /\ work' = [work EXCEPT ![p] = WithDeltas(SortedByTime(r.marks))]
    /\ prevOK' = IF /\ lastOK # None
                    /\ analysis_id \in Analyses
                    /\ r.json
                    /\ r.marks = lastOK.marks
                 THEN lastOK ELSE None
    /\ UNCHANGED <<actionPoints, store, nextId, seen, committed, lastOK, changes, rescored>>
    /\ UNCHANGED <<validateVars, uploadVars>>

\* faulty variant of TxDelete: the old rows are kept
TxDeleteNothing(p) ==
    /\ pc[p] = "ready"
    /\ pc' = [pc EXCEPT ![p] = "deleted"]
    /\ UNCHANGED <<actionPoints, store, nextId, req, work, txDel, status, resp, seen,
                   committed, before, saves, prevOK, lastOK, changes, rescored>>
    /\ UNCHANGED <<validateVars, uploadVars>>

\* transaction.atomic() is entered and analysis.marks.all().delete() runs: the
\* DELETE removes the rows committed at this moment, and the code takes no lock
\* that would keep another request's transaction from running meanwhile
TxDelete(p) ==
    /\ pc[p] = "ready"
    /\ pc' = [pc EXCEPT ![p] = "deleted"]
    /\ txDel' = [txDel EXCEPT ![p] = MarksOfAnalysis(store)]
    /\ store' = StoreDuringTx(store, MarksOfAnalysis(store))
    /\ UNCHANGED <<actionPoints, nextId, req, work, status, resp, seen, committed,
                   before, saves, prevOK, lastOK, changes, rescored>>
    /\ UNCHANGED <<validateVars, uploadVars>>

\* Mark.objects.bulk_create(new_marks) and the end of the atomic block: the
\* transaction commits, or the insert raises and the transaction rolls back
TxInsert(p) ==
    /\ pc[p] = "deleted"
    /\ LET rows == NewMarks(work[p], nextId)
       IN  IF InsertAccepted(rows)
           THEN /\ store' = (store \ txDel[p]) \cup rows
                /\ committed' = rows
                /\ nextId' = nextId + Len(work[p])
                /\ pc' = [pc EXCEPT ![p] = "committed"]
                /\ status' = status
                /\ rescored' = rescored \ {m.id : m \in txDel[p]}
           ELSE /\ pc' = [pc EXCEPT ![p] = "failed"]
                /\ status' = [status EXCEPT ![p] = 500]
                /\ UNCHANGED <<store, committed, nextId, rescored>>
    /\ UNCHANGED <<actionPoints, req, work, txDel, resp, seen, before, saves,
                   prevOK, lastOK, changes>>
    /\ UNCHANGED <<validateVars, uploadVars>>

\* the re-read of the analysis' marks and the success response
Respond(p) ==
    /\ pc[p] = "committed"
    /\ \E s \in OrderedByTime(MarksOfAnalysis(store)) :
          /\ resp' = [resp EXCEPT ![p] = MarkData(s)]
          /\ lastOK' = [marks |-> req[p].marks, rows |-> BagOf(RowsOf(s)),
                        persisted |-> BagOf(store), total |-> Total(store),
                        epoch |-> changes]
    /\ status' = [status EXCEPT ![p] = 200]
    /\ pc' = [pc EXCEPT ![p] = "done"]
    /\ UNCHANGED <<actionPoints, store, nextId, req, work, txDel, seen, committed,
                   before, saves, prevOK, changes, rescored>>
    /\ UNCHANGED <<validateVars, uploadVars>>

\* analysis_detail: reads the analysis' marks ordered by time
ReadMarks ==
    /\ \E s \in OrderedByTime(MarksOfAnalysis(store)) :
          seen' = [marks |-> MarkData(s),
                   allowed |-> IF \E p \in Procs : pc[p] = "deleted"
                               THEN UNION {{BagOf(txDel[p]), BagOf(NewMarks(work[p], nextId))}
                                             : p \in {q \in Procs : pc[q] = "deleted"}}
                               ELSE {BagOf(committed)}]
    /\ seen' # seen
    /\ UNCHANGED <<actionPoints, store, nextId, pc, req, work, txDel, status, resp,
                   committed, before, saves, prevOK, lastOK, changes, rescored>>
    /\ UNCHANGED <<validateVars, uploadVars>>

\* an Action's points column is updated (the rubric is edited)
SetActionPoints(a, v) ==
    /\ changes < MaxPointChanges
    /\ v # actionPoints[a]
    /\ actionPoints' = [actionPoints EXCEPT ![a] = v]
    /\ changes' = changes + 1
    /\ rescored' = rescored \cup {m.id : m \in {x \in store : x.action_id = a}}
    /\ UNCHANGED <<store, nextId, pc, req, work, txDel, status, resp, seen, committed,
                   before, saves, prevOK, lastOK>>
    /\ UNCHANGED <<validateVars, uploadVars>>

InitSave ==
    /\ actionPoints = [a \in ActionIds |-> 10]
    /\ store = {}
    /\ nextId = 1
    /\ pc = [p \in Procs |-> "idle"]
    /\ req = [p \in Procs |-> [analysis_id |-> 1] @@ Garbage]
    /\ work = [p \in Procs |-> <<>>]
    /\ txDel = [p \in Procs |-> {}]
    /\ status = [p \in Procs |-> 0]
    /\ resp = [p \in Procs |-> <<>>]
    /\ seen = [marks |-> <<>>, allowed |-> {BagOf({})}]
    /\ committed = {}
    /\ before = [p \in Procs |-> {}]
    /\ saves = 0
    /\ prevOK = None
    /\ lastOK = None
    /\ changes = 0
    /\ rescored = {}

InitValidateIdle ==
    /\ vfile = <<>>
    /\ vresult = None

InitUpload ==
    /\ videos = {}
    /\ disk = <<>>
    /\ dirs = {}
    /\ nextVideoId = 1
    /\ upc = "idle"
    /\ ureq = None
    /\ uplan = None
    /\ ustatus = 0
    /\ uploads = 0
    /\ ubefore = [videos |-> {}, disk |-> <<>>]
    /\ accepted = <<>>

\* one client saving again and again
Init == InitSave /\ InitValidateIdle /\ InitUpload

Next ==
    \/ \E r \in Requests(MarkSpecs) : Receive(1, 1, r)
    \/ \E r \in {x \in Requests(MarkSpecs) : x.json => Len(x.marks) <= 1} :
          Receive(1, 99, r)
    \/ TxDelete(1)
    \/ TxInsert(1)
    \/ Respond(1)

Spec == Init /\ [][Next]_vars

\* one client saving again and again, while the rubric is edited
RubricMarkSpecs ==
    { [action_id |-> 1, time_seconds |-> 8, count |-> 3],
      [action_id |-> 2, time_seconds |-> 4, is_failure |-> TRUE, count |-> 3] }

NextRubric ==
    \/ \E r \in Requests(RubricMarkSpecs) : Receive(1, 1, r)
    \/ TxDelete(1)
    \/ TxInsert(1)
    \/ Respond(1)
    \/ \E a \in ActionIds, v \in PointValues : SetActionPoints(a, v)

SpecRubric == Init /\ [][NextRubric]_vars

\* ---- properties of the save protocol ---------------------------------------
Answered(p) == pc[p] = "done" /\ status[p] = 200

HasUnknownAction(r) ==
    r.json /\ \E i \in 1..Len(r.marks) : r.marks[i].action_id \notin ActionIds

\* C1: in every success response the marks are in ascending time order and each
\* mark's delta_seconds is its time_seconds minus the time_seconds of the mark
\* before it in the response (minus zero for the first), all as persisted values.
C1_ReturnedDeltasAreGaps ==
    \A p \in Procs : Answered(p) =>
        \A i \in 1..Len(resp[p]) :
            /\ i > 1 => resp[p][i - 1].time_seconds <= resp[p][i].time_seconds
            /\ resp[p][i].delta_seconds =
                   resp[p][i].time_seconds
                   - (IF i = 1 THEN 0 ELSE resp[p][i - 1].time_seconds)

\* C2: a request for an existing analysis with at least one mark whose action_id
\* names no Action is answered 400 and the persisted marks are the ones that
\* were there when it arrived.
C2_UnknownActionRejectsBatch ==
    \A p \in Procs :
        (pc[p] # "idle" /\ req[p].analysis_id \in Analyses /\ HasUnknownAction(req[p]))
            => (status[p] = 400 /\ pc[p] = "rejected" /\ store = before[p])

C2_Witness ==
    \E p \in Procs :
        /\ status[p] = 400 /\ HasUnknownAction(req[p])
        /\ \E i \in 1..Len(req[p].marks) : req[p].marks[i].action_id \in ActionIds
        /\ before[p] # {} /\ store = before[p]

\* the submitted marks as the rows they are to become: action, time at the
\* column's 4 decimal places, failure flag (false when omitted), count (1 when
\* omitted)
Submitted(marks) ==
    LET row(i) == [action_id |-> marks[i].action_id,
                   time_seconds |-> Quantize(marks[i].time_seconds),
                   is_failure |-> IF "is_failure" \in DOMAIN marks[i]
                                  THEN marks[i].is_failure ELSE FALSE,
                   count |-> IF "count" \in DOMAIN marks[i] THEN marks[i].count ELSE 1]
    IN  [r \in {row(i) : i \in 1..Len(marks)} |->
            Cardinality({i \in 1..Len(marks) : row(i) = r})]

Persisted(rows) ==
    LET row(m) == [action_id |-> m.action_id, time_seconds |-> m.time_seconds,
                   is_failure |-> m.is_failure, count |-> m.count]
    IN  [r \in {row(m) : m \in rows} |-> Cardinality({m \in rows : row(m) = r})]

\* C5: after a successful save the persisted marks are exactly the submitted
\* ones (one row per submitted mark, with the defaults filled in), no row from
\* before the save remains, and an empty list leaves no marks and returns none.
C5_SaveReplacesMarks ==
    \A p \in Procs : Answered(p) =>
        /\ Persisted(store) = Submitted(req[p].marks)
        /\ Cardinality(store) = Len(req[p].marks)
        /\ store \cap before[p] = {}
        /\ Len(resp[p]) = Len(req[p].marks)
        /\ req[p].marks = <<>> => (store = {} /\ resp[p] = <<>>)

C5_Witness ==
    \E p \in Procs :
        /\ Answered(p)
        /\ before[p] # {}
        /\ Len(req[p].marks) = 2
        /\ \E i \in 1..2 : DOMAIN req[p].marks[i] = {"action_id", "time_seconds"}

\* C6: when the same list is saved twice in a row and no Action changed in
\* between, both saves return the same times and deltas, persist the same rows
\* (identifiers aside) and give the same point total.
C6_RepeatedSaveIsIdempotent ==
    (Answered(1) /\ prevOK # None /\ lastOK # None /\ prevOK.epoch = lastOK.epoch)
        => /\ lastOK.rows = prevOK.rows
           /\ lastOK.persisted = prevOK.persisted
           /\ lastOK.total = prevOK.total

C6_Witness ==
    /\ Answered(1) /\ prevOK # None /\ prevOK.epoch = lastOK.epoch
    /\ Len(req[1].marks) = 2
    /\ req[1].marks[1].time_seconds > req[1].marks[2].time_seconds
    /\ lastOK.total = 30
    /\ before[1] # {} /\ store \cap before[1] = {}

\* C7: a stored mark is worth 0 when it is a failure, whatever its count, and
\* otherwise its Action's current points times its count (count 3 of an action
\* worth 10 gives 30); re-pricing an Action re-prices the stored marks that
\* reference it.
C7_PointsRule ==
    /\ [](\A m \in store :
             /\ m.is_failure => points(m) = 0
             /\ ~m.is_failure => points(m) = actionPoints[m.action_id] * m.count
             /\ (~m.is_failure /\ m.count = 3 /\ actionPoints[m.action_id] = 10)
                    => points(m) = 30)
    /\ [][\A m \in store \cap store' :
             (~m.is_failure /\ m.count # 0
                /\ actionPoints'[m.action_id] # actionPoints[m.action_id])
                 => points(m)' # points(m)]_vars

C7_Witness ==
    \E m \in store, f \in store :
        /\ m.id \in rescored /\ ~m.is_failure /\ m.count = 3
        /\ actionPoints[m.action_id] = 5 /\ points(m) = 15
        /\ f.is_failure /\ f.count = 3 /\ points(f) = 0

\* ---- concurrent requests ---------------------------------------------------
ConcMarkSpecs ==
    { [action_id |-> 1, time_seconds |-> 3 * Sub],
      [action_id |-> 2, time_seconds |-> 12 * Sub, is_failure |-> TRUE, count |-> 3],
      [action_id |-> 2, time_seconds |-> 5 * Sub, count |-> -1] }

\* one client saving again and again, with readers at any moment
NextRW ==
    \/ \E r \in Requests(ConcMarkSpecs) : Receive(1, 1, r)
    \/ TxDelete(1)
    \/ TxInsert(1)
    \/ Respond(1)
    \/ ReadMarks

SpecRW == Init /\ [][NextRW]_vars

\* saves that overlap freely
NextConc ==
    \/ \E p \in Procs, r \in Requests(ConcMarkSpecs) : Receive(p, 1, r)
    \/ \E p \in Procs : TxDelete(p)
    \/ \E p \in Procs : TxInsert(p)
    \/ \E p \in Procs : Respond(p)

SpecConc == Init /\ [][NextConc]_vars

\* C3: every read of the analysis' marks returns the complete set from before
\* the save in progress or the complete new set, never the emptied or a partly
\* inserted set; and when the insert fails the deleted rows are all still there.
C3_ReadersSeeWholeSets ==
    /\ [](BagOf(RowsOf(seen.marks)) \in seen.allowed)
    /\ [][\A p \in Procs : (pc[p] = "deleted" /\ pc'[p] = "failed")
                              => store' = txDel[p]]_vars

C3_Witness ==
    /\ seen.marks # <<>>
    /\ Cardinality(seen.allowed) = 2
    /\ \E p \in Procs : pc[p] = "failed" /\ txDel[p] # {} /\ store = txDel[p]

\* C4: once two concurrent saves of the same analysis have both committed and
\* answered, the persisted marks are exactly the marks of one of the two
\* requests, and the persisted deltas are the gaps between consecutive
\* persisted times (in some ascending order of the rows).
C4_ConcurrentSavesLastWriterWins ==
    (\A p \in Procs : Answered(p)) =>
        /\ \E p \in Procs : /\ Cardinality(store) = Len(req[p].marks)
                            /\ Persisted(store) = Submitted(req[p].marks)
        /\ \E s \in OrderedByTime(store) : \A i \in 1..Len(s) :
              s[i].delta_seconds =
                  s[i].time_seconds - (IF i = 1 THEN 0 ELSE s[i - 1].time_seconds)

\* ---- _validate_video_file ---------------------------------------------------
\* four-byte words of a file header, as byte values
FTYP == <<102, 116, 121, 112>>     \* b'ftyp'
QT == <<113, 116, 32, 32>>         \* b'qt  '
ISOM == <<105, 115, 111, 109>>     \* b'isom'
EBML == <<26, 69, 223, 163>>       \* b'\x1aE\xdf\xa3'
RIFF == <<82, 73, 70, 70>>         \* b'RIFF'
AVI == <<65, 86, 73, 32>>          \* b'AVI '
MPEGBA == <<0, 0, 1, 186>>         \* b'\x00\x00\x01\xba'
MPEGB3 == <<0, 0, 1, 179>>         \* b'\x00\x00\x01\xb3'

\* Python's s[a:b]
Slice(s, a, b) == SubSeq(s, a + 1, IF b < Len(s) THEN b ELSE Len(s))

\* faulty variant of FtypAt: no byte is required after 'ftyp'
FtypAtInclusive(header, offset) ==
    Len(header) >= offset + 4 /\ Slice(header, offset, offset + 4) = FTYP

\* len(header) > offset + 4 and header[offset:offset+4] == b'ftyp'
FtypAt(header, offset) ==
    Len(header) > offset + 4 /\ Slice(header, offset, offset + 4) = FTYP

Rejected == [is_valid |-> FALSE, ext |-> "None"]
Valid(e) == [is_valid |-> TRUE, ext |-> e]

\* the brand test of the ftyp branch
FtypKind(header, offset) ==
    IF Slice(header, offset + 4, offset + 8) = QT THEN Valid("mov") ELSE Valid("mp4")

validate_video_file(file_content) ==
    IF Len(file_content) < 12 THEN Rejected
    ELSE LET header == Slice(file_content, 0, 32)
         IN  IF FtypAt(header, 4) THEN FtypKind(header, 4)
             ELSE IF FtypAt(header, 8) THEN FtypKind(header, 8)
             ELSE IF Slice(header, 0, 4) = EBML THEN Valid("webm")
             ELSE IF Slice(header, 0, 4) = RIFF /\ Slice(header, 8, 12) = AVI
                  THEN Valid("avi")
             ELSE IF Slice(header, 0, 4) \in {MPEGBA, MPEGB3} THEN Valid("mpg")
             ELSE Rejected

\* the inputs: four header words followed by zero bytes, cut at every length
MaxFileLen == 17

Words == {FTYP, QT, ISOM, EBML, RIFF, AVI, MPEGBA, MPEGB3}

Files ==
    {Slice(w0 \o w1 \o w2 \o w3 \o [i \in 1..MaxFileLen |-> 0], 0, n) :
        w0 \in Words, w1 \in Words, w2 \in Words, w3 \in Words, n \in 0..MaxFileLen}

Validate ==
    /\ vresult = None
    /\ vresult' = validate_video_file(vfile)
    /\ UNCHANGED <<vfile, saveVars, uploadVars>>

InitValidate ==
    /\ InitSave /\ InitUpload
    /\ vfile \in Files
    /\ vresult = None

NextValidate == Validate

SpecValidate == InitValidate /\ [][NextValidate]_vars

FtypAt4(c) == Slice(c, 4, 8) = FTYP
FtypAt8(c) == Slice(c, 8, 12) = FTYP
OtherSignature(c) ==
    \/ Slice(c, 0, 4) = EBML
    \/ Slice(c, 0, 4) = RIFF /\ Slice(c, 8, 12) = AVI
    \/ Slice(c, 0, 4) \in {MPEGBA, MPEGB3}
BrandExt(c, offset) == IF Slice(c, offset + 4, offset + 8) = QT THEN "mov" ELSE "mp4"

\* C8 as stated: inputs under 12 bytes are rejected; an input with 'ftyp' at
\* offset 4 or 8 is accepted, as 'mov' when the four bytes after that 'ftyp' are
\* 'qt  ' and as 'mp4' otherwise; an input matching no signature is rejected.
C8_AsStated ==
    vresult # None =>
        /\ Len(vfile) < 12 => ~vresult.is_valid
        /\ (Len(vfile) >= 12 /\ FtypAt4(vfile))
               => vresult = Valid(BrandExt(vfile, 4))
        /\ (Len(vfile) >= 12 /\ ~FtypAt4(vfile) /\ FtypAt8(vfile))
               => vresult = Valid(BrandExt(vfile, 8))
        /\ vresult.is_valid
               => (FtypAt4(vfile) \/ FtypAt8(vfile) \/ OtherSignature(vfile))

\* C8 amended: inputs under 12 bytes are rejected; an input of at least 12 bytes
\* with 'ftyp' at offset 4, or of at least 13 bytes with 'ftyp' at offset 8 and
\* not at offset 4, is accepted, as 'mov' when the four bytes after that 'ftyp'
\* are 'qt  ' and as 'mp4' otherwise; a 12-byte input whose only 'ftyp' is at
\* offset 8 is not taken as ftyp (it is rejected unless it starts with the EBML
\* or an MPEG signature); an input matching no signature is rejected.
C8_FtypNeedsByteAfterIt ==
    vresult # None =>
        /\ Len(vfile) < 12 => ~vresult.is_valid
        /\ (Len(vfile) >= 12 /\ FtypAt4(vfile))
               => vresult = Valid(BrandExt(vfile, 4))
        /\ (Len(vfile) >= 13 /\ ~FtypAt4(vfile) /\ FtypAt8(vfile))
               => vresult = Valid(BrandExt(vfile, 8))
        /\ (Len(vfile) = 12 /\ ~FtypAt4(vfile) /\ FtypAt8(vfile))
               => vresult = (IF Slice(vfile, 0, 4) = EBML THEN Valid("webm")
                             ELSE IF Slice(vfile, 0, 4) \in {MPEGBA, MPEGB3}
                                  THEN Valid("mpg")
                             ELSE Rejected)
        /\ vresult.is_valid
               => (FtypAt4(vfile) \/ FtypAt8(vfile) \/ OtherSignature(vfile))

C8_Witness ==
    /\ vresult = Valid("mov")
    /\ ~FtypAt4(vfile) /\ FtypAt8(vfile)
    /\ Len(vfile) = 16

\* ---- video_upload -------------------------------------------------------------
MaxUploads == 2

\* Event rows: id -> date
EventDate == (1 :> "2026/03/01") @@ (2 :> "2026/03/01") @@ (3 :> "2026/04/12")

\* request.FILES.get('video') when the form carries no 'video' part
NoFile == [present |-> FALSE, content |-> <<>>]
Uploaded(c) == [present |-> TRUE, content |-> c]

\* contents of the uploaded files
SampleFiles ==
    { ISOM \o FTYP \o ISOM \o ISOM,        \* mp4
      ISOM \o FTYP \o QT \o ISOM,          \* QuickTime
      EBML \o ISOM \o ISOM,                \* WebM
      ISOM \o ISOM \o FTYP,                \* 12 bytes, ftyp at offset 8
      ISOM \o ISOM \o ISOM \o ISOM,        \* no signature
      FTYP \o QT }                         \* too short

FileNames == {"", "  ", "match1", "match2"}

\* str.strip() on the names above
StripName(n) == IF n = "  " THEN "" ELSE n

\* hashlib.sha256(file_content).hexdigest(): a digest that differs for every two
\* of the files above, here the length of the content and its rank among the
\* files of that length
Sha256(content) ==
    LET sameLen == {c \in SampleFiles : Len(c) = Len(content)}
        lexLess(a, b) == \E i \in 1..Len(a) :
                            /\ a[i] < b[i]
                            /\ \A j \in 1..(i - 1) : a[j] = b[j]
    IN  <<Len(content), Cardinality({c \in sameLen : lexLess(c, content)})>>

\* storage_filename = f'{file_hash}.{detected_ext}'
StorageFilename(content, ext) == [hash |-> Sha256(content), ext |-> ext]

\* relative_path = f'{date_path}/{storage_filename}'
StoragePath(date_path, content, ext) ==
    [dir |-> date_path, name |-> StorageFilename(content, ext)]

Exists(path) == path \in DOMAIN disk

\* video_upload up to storage_dir.mkdir: the 404, the two missing-field checks,
\* the read, the validation, the hash and the directory
UploadStart(event_id, uploaded_file, filename) ==
    /\ upc \in {"idle", "done", "rejected", "crashed"}
    /\ uploads < MaxUploads
    /\ uploads' = uploads + 1
    /\ ureq' = [event_id |-> event_id, file |-> uploaded_file, filename |-> filename]
    /\ ubefore' = [videos |-> videos, disk |-> disk]
    /\ IF event_id \notin DOMAIN EventDate
          THEN /\ ustatus' = 404 /\ upc' = "rejected" /\ uplan' = None /\ dirs' = dirs
       ELSE IF ~uploaded_file.present \/ StripName(filename) = ""
          THEN /\ ustatus' = 400 /\ upc' = "rejected" /\ uplan' = None /\ dirs' = dirs
       ELSE LET v == validate_video_file(uploaded_file.content)
            IN  IF ~v.is_valid
                THEN /\ ustatus' = 400 /\ upc' = "rejected" /\ uplan' = None
                     /\ dirs' = dirs
                ELSE /\ ustatus' = 0
                     /\ upc' = "validated"
                     /\ dirs' = dirs \cup {EventDate[event_id]}
                     /\ uplan' = [content |-> uploaded_file.content,
                                  filename |-> StripName(filename),
                                  path |-> StoragePath(EventDate[event_id],
                                                       uploaded_file.content, v.ext)]
    /\ UNCHANGED <<videos, disk, nextVideoId, accepted, saveVars, validateVars>>

\* open(storage_path, 'wb'): the file is created, or truncated when it exists
UploadOpen ==
    /\ upc = "validated"
    /\ disk' = (uplan.path :> <<>>) @@ disk
    /\ upc' = "opened"
    /\ UNCHANGED <<videos, dirs, nextVideoId, ureq, uplan, ustatus, uploads, ubefore,
                   accepted, saveVars, validateVars>>

\* f.write(file_content) and the close of the file
UploadWrite ==
    /\ upc = "opened"
    /\ disk' = (uplan.path :> uplan.content) @@ disk
    /\ upc' = "written"
    /\ UNCHANGED <<videos, dirs, nextVideoId, ureq, uplan, ustatus, uploads, ubefore,
                   accepted, saveVars, validateVars>>

\* faulty variant of UploadCreate: the row may be created before the file is written
UploadCreateEarly ==
    /\ upc \in {"validated", "written"}
    /\ videos' = videos \cup {[id |-> nextVideoId, event |-> ureq.event_id,
                               filename |-> uplan.filename, file_path |-> uplan.path,
                               file_size_bytes |-> Len(uplan.content)]}
    /\ nextVideoId' = nextVideoId + 1
    /\ accepted' = Append(accepted, [content |-> uplan.content,
                                     filename |-> uplan.filename,
                                     event |-> ureq.event_id, video_id |-> nextVideoId])
    /\ ustatus' = 200
    /\ upc' = "done"
    /\ UNCHANGED <<disk, dirs, ureq, uplan, uploads, ubefore, saveVars, validateVars>>

\* faulty variant of UploadCreate: a row with the same file_path is reused
UploadCreateDedup ==
    /\ upc = "written"
    /\ LET same == {v \in videos : v.file_path = uplan.path}
           vid == IF same = {} THEN nextVideoId ELSE (CHOOSE v \in same : TRUE).id
       IN  /\ videos' = IF same = {}
                        THEN videos \cup {[id |-> nextVideoId, event |-> ureq.event_id,
                                           filename |-> uplan.filename,
                                           file_path |-> uplan.path,
                                           file_size_bytes |-> Len(uplan.content)]}
                        ELSE videos
           /\ nextVideoId' = IF same = {} THEN nextVideoId + 1 ELSE nextVideoId
           /\ accepted' = Append(accepted, [content |-> uplan.content,
                                            filename |-> uplan.filename,
                                            event |-> ureq.event_id, video_id |-> vid])
    /\ ustatus' = 200
    /\ upc' = "done"
    /\ UNCHANGED <<disk, dirs, ureq, uplan, uploads, ubefore, saveVars, validateVars>>

\* Video.objects.create(...) and the success response
UploadCreate ==
    /\ upc = "written"
    /\ videos' = videos \cup {[id |-> nextVideoId, event |-> ureq.event_id,
                               filename |-> uplan.filename, file_path |-> uplan.path,
                               file_size_bytes |-> Len(uplan.content)]}
    /\ nextVideoId' = nextVideoId + 1
    /\ accepted' = Append(accepted, [content |-> uplan.content,
                                     filename |-> uplan.filename,
                                     event |-> ureq.event_id, video_id |-> nextVideoId])
    /\ ustatus' = 200
    /\ upc' = "done"
    /\ UNCHANGED <<disk, dirs, ureq, uplan, uploads, ubefore, saveVars, validateVars>>

\* the process dies while video_upload is between two of its steps
UploadCrash ==
    /\ upc \in {"validated", "opened", "written"}
    /\ upc' = "crashed"
    /\ UNCHANGED <<videos, disk, dirs, nextVideoId, ureq, uplan, ustatus, uploads,
                   ubefore, accepted, saveVars, validateVars>>

InitUploads == InitSave /\ InitValidateIdle /\ InitUpload

NextUpload ==
    \/ \E e \in DOMAIN EventDate \cup {99},
          f \in {Uploaded(c) : c \in SampleFiles} \cup {NoFile},
          n \in FileNames : UploadStart(e, f, n)
    \/ UploadOpen
    \/ UploadWrite
    \/ UploadCreate
    \/ UploadCrash

SpecUpload == InitUploads /\ [][NextUpload]_vars

VideoOf(a) == CHOOSE v \in videos : v.id = a.video_id

\* C9 as stated: any two accepted uploads with the same bytes have the same
\* storage path, and are two Video rows, each with its own display filename.
C9_AsStated ==
    \A i \in 1..Len(accepted), j \in 1..Len(accepted) :
        (i < j /\ accepted[i].content = accepted[j].content) =>
            /\ \E v \in videos : v.id = accepted[i].video_id
            /\ \E v \in videos : v.id = accepted[j].video_id
            /\ accepted[i].video_id # accepted[j].video_id
            /\ VideoOf(accepted[i]).filename = accepted[i].filename
            /\ VideoOf(accepted[j]).filename = accepted[j].filename
            /\ VideoOf(accepted[i]).file_path = VideoOf(accepted[j]).file_path

\* C9 amended: any two accepted uploads with the same bytes have the same storage
\* file name (hash and extension), and the same storage path exactly when their
\* events have the same date; they are two Video rows, each with its own
\* display filename.
C9_SameContentSameStorageName ==
    \A i \in 1..Len(accepted), j \in 1..Len(accepted) :
        (i < j /\ accepted[i].content = accepted[j].content) =>
            /\ \E v \in videos : v.id = accepted[i].video_id
            /\ \E v \in videos : v.id = accepted[j].video_id
            /\ accepted[i].video_id # accepted[j].video_id
            /\ VideoOf(accepted[i]).filename = accepted[i].filename
            /\ VideoOf(accepted[j]).filename = accepted[j].filename
            /\ VideoOf(accepted[i]).file_path.name = VideoOf(accepted[j]).file_path.name
            /\ (VideoOf(accepted[i]).file_path = VideoOf(accepted[j]).file_path)
                   <=> (EventDate[accepted[i].event] = EventDate[accepted[j].event])

C9_Witness ==
    /\ Len(accepted) = 2
    /\ accepted[1].content = accepted[2].content
    /\ accepted[1].filename # accepted[2].filename
    /\ accepted[1].event # accepted[2].event
    /\ VideoOf(accepted[1]).file_path = VideoOf(accepted[2]).file_path
    /\ Cardinality(videos) = 2

\* C10: every Video row's file_path names a file on disk, whatever the upload
\* handler was doing when it stopped, and a rejected upload leaves the Video
\* rows and the files as they were.
C10_EveryVideoHasItsFile ==
    /\ \A v \in videos : Exists(v.file_path)
    /\ upc = "rejected" => (videos = ubefore.videos /\ disk = ubefore.disk)

C10_Witness ==
    /\ upc = "crashed"
    /\ videos # {}
    /\ \E path \in DOMAIN disk : \A v \in videos : v.file_path # path

====
